---- MODULE Spec2Model ----
(***************************************************************************)
(* Run creation (dagster_graphql run_lifecycle.create_valid_pipeline_run)  *)
(* and event-sourced result reconstruction (dagster core execution         *)
(* results: PipelineExecutionResult / SolidExecutionResult).               *)
(***************************************************************************)
EXTENDS Integers, Sequences, FiniteSets, TLC

\* ------------------------------------------------------------------ bounds
\* longest event list handed to PipelineExecutionResult
MaxEvents == 3
\* most runs create_valid_pipeline_run is asked to create
MaxRuns == 3

\* ------------------------------------------------------- python-ish values
None == [type |-> "None"]
Plain(n) == [type |-> "value", v |-> n]
\* dagster.core.definitions.events.ObjectStoreOperation(obj=x)
ObjectStoreOperation(x) == [type |-> "ObjectStoreOperation", obj |-> x]

\* --------------------------------------------------- pipeline definition
\* outer (composite) contains outer.inner (leaf) and outer.mid (composite),
\* which contains outer.mid.leaf (leaf).
LeafHandles == { <<"outer", "inner">>, <<"outer", "mid", "leaf">> }
CompositeHandles == { <<"outer">>, <<"outer", "mid">> }
SolidHandles == LeafHandles \cup CompositeHandles
\* handle strings a caller may pass, one of them addressing no solid
QueryHandles == SolidHandles \cup { <<"ghost">> }

\* pipeline.get_solid(SolidHandle.from_string(handle)): falsy when not found
Solid(handle) == [type |-> "Solid", handle |-> handle]
get_solid(handle) == IF handle \in SolidHandles THEN Solid(handle) ELSE None

\* solid.definition.has_output(output_name): every solid declares "result"
\* and "other"; the steps of the logs below only ever emit "result"
DefinedOutputs == {"result", "other"}
has_output(solid, output_name) == output_name \in DefinedOutputs
\* output names a caller may ask for
OutputNames == {"result", "bogus"}

\* SolidHandle.is_or_descends_from: prefix comparison over path segments
is_or_descends_from(handle, ancestor) ==
    /\ Len(ancestor) <= Len(handle)
    /\ SubSeq(handle, 1, Len(ancestor)) = ancestor

\* ------------------------------------------------------------------ events
StepKinds == {"COMPUTE", "OTHER"}
StepEventTypes ==
    {"STEP_INPUT", "STEP_OUTPUT", "STEP_SUCCESS", "STEP_FAILURE", "STEP_SKIPPED",
     "STEP_MATERIALIZATION", "STEP_EXPECTATION_RESULT"}

StepKeyOf(handle, kind) == <<handle, kind>>

Event(handle, kind, type, output_name) ==
    [ step_key     |-> StepKeyOf(handle, kind),
      solid_handle |-> handle,
      step_kind    |-> kind,
      event_type   |-> type,
      output_name  |-> output_name ]

\* the events the execution of the pipeline can put in the log
Events ==
    { Event(h, "COMPUTE", t, "") :
        h \in LeafHandles,
        t \in {"STEP_INPUT", "STEP_SUCCESS", "STEP_FAILURE", "STEP_SKIPPED"} }
    \cup { Event(h, "COMPUTE", "STEP_OUTPUT", "result") : h \in LeafHandles }
    \cup { Event(h, "OTHER", t, "") :
             h \in LeafHandles, t \in {"STEP_SUCCESS", "STEP_FAILURE"} }
    \cup { [ step_key |-> <<>>, solid_handle |-> <<>>, step_kind |-> "NONE",
             event_type |-> "PIPELINE_START", output_name |-> "" ] }

\* a smaller log alphabet with the events that carry materializations,
\* expectation results, inputs and outputs
EventsOrdered ==
    { Event(<<"outer", "inner">>, "COMPUTE", t, "") :
        t \in {"STEP_INPUT", "STEP_MATERIALIZATION", "STEP_EXPECTATION_RESULT",
               "STEP_SUCCESS"} }
    \cup { Event(h, "COMPUTE", "STEP_OUTPUT", "result") : h \in LeafHandles }
    \cup { Event(<<"outer", "mid", "leaf">>, k, "STEP_MATERIALIZATION", "") :
             k \in StepKinds }
    \cup { e \in Events : e.step_kind = "NONE" }

\* a log alphabet with terminal and output events of both step kinds
EventsKinds ==
    { Event(<<"outer", "inner">>, k, t, "") :
        k \in StepKinds, t \in {"STEP_SUCCESS", "STEP_FAILURE", "STEP_SKIPPED"} }
    \cup { Event(<<"outer", "inner">>, k, "STEP_OUTPUT", "result") : k \in StepKinds }
    \cup { Event(<<"outer", "mid", "leaf">>, "OTHER", "STEP_FAILURE", ""),
           Event(<<"outer", "mid", "leaf">>, "OTHER", "STEP_OUTPUT", "result"),
           Event(<<"outer", "mid", "leaf">>, "COMPUTE", "STEP_SUCCESS", "") }
    \cup { e \in Events : e.step_kind = "NONE" }

\* a log alphabet of outputs and terminal events; no step emits the declared
\* output "other"
EventsOutputs ==
    { Event(h, "COMPUTE", "STEP_OUTPUT", "result") : h \in LeafHandles }
    \cup { Event(h, "COMPUTE", "STEP_SUCCESS", "") : h \in LeafHandles }
    \cup { Event(<<"outer", "inner">>, "COMPUTE", "STEP_FAILURE", ""),
           Event(<<"outer", "inner">>, "OTHER", "STEP_OUTPUT", "result") }
    \cup { e \in Events : e.step_kind = "NONE" }

\* DagsterEvent.is_step_event
is_step_event(event) == event.event_type \in StepEventTypes
\* DagsterEvent.is_successful_output
is_successful_output(event) == event.event_type = "STEP_OUTPUT"
\* DagsterEvent.step_output_data.step_output_handle
step_output_handle(event) ==
    [step_key |-> event.step_key, output_name |-> event.output_name]

VARIABLES
    event_list,   \* PipelineExecutionResult.event_list
    call,         \* the last query made on the result, with what it returned
    open_contexts,   \* execution contexts acquired and not yet released
    again,        \* the last query, made once more on a result built anew
    runs,         \* the run store: the persisted PipelineRun records, oldest first
    pc,           \* where create_valid_pipeline_run stands
    execution_params,          \* its argument
    parent_log,                \* the parent run's step outcomes the resolver read
    step_keys_to_execute,      \* its local, once resolved
    external_execution_plan,   \* its local, once built
    outcome                    \* what it returned or raised

resultVars == <<event_list, call, open_contexts, again>>
runVars == <<runs, pc, execution_params, parent_log, step_keys_to_execute,
             external_execution_plan, outcome>>
vars == <<event_list, call, open_contexts, again, runs, pc, execution_params, parent_log,
          step_keys_to_execute, external_execution_plan, outcome>>

NoCall == [op |-> "none"]

\* what a call hands back: a value, or an exception
Return(v) == [kind |-> "return", value |-> v]
Raise(e) == [kind |-> "raise", error |-> e]

\* ------------------------------------------------------ intermediate store
StepOutputHandles ==
    { [step_key |-> StepKeyOf(h, "COMPUTE"), output_name |-> n] :
        h \in LeafHandles, n \in {"result"} }
\* the value checkpointed under each handle
HeldValue(so_handle) ==
    IF so_handle.step_key[1] = <<"outer", "inner">> THEN 41 ELSE 42
\* a store state: under each handle the store answers with the value, with a
\* pointer wrapper around it, or fails to read the checkpoint
Stores == [StepOutputHandles -> {"value", "pointer", "missing"}]
\* what a failed read of the store raises
StoreError == [type |-> "raise", error |-> "intermediate could not be read"]
\* context.intermediates_manager.get_intermediate(step_output_handle=...)
get_intermediate(store, so_handle) ==
    IF so_handle \notin DOMAIN store \/ store[so_handle] = "missing"
    THEN StoreError
    ELSE IF store[so_handle] = "pointer"
    THEN ObjectStoreOperation(Plain(HeldValue(so_handle)))
    ELSE Plain(HeldValue(so_handle))

\* ------------------------------------------------ PipelineExecutionResult
\* result_for_handle with each bucket assigned instead of appended to: only the
\* last event of a kind is kept
result_for_handle_keeps_last(events, handle) ==
    LET solid_def == get_solid(handle)
        mine(event) ==
            /\ is_step_event(event)
            /\ is_or_descends_from(event.solid_handle, handle)
        kinds == { events[i].step_kind : i \in { j \in DOMAIN events : mine(events[j]) } }
        bucket(k) == SelectSeq(events, LAMBDA e : mine(e) /\ e.step_kind = k)
    IN  IF solid_def = None
        THEN Raise("DagsterInvariantViolationError")
        ELSE Return([solid |-> solid_def,
                     step_events_by_kind |->
                        [ k \in kinds |-> << bucket(k)[Len(bucket(k))] >> ]])

\* _construct_events_by_step_key(event_list): the events grouped by step key,
\* each appended to the list of its key
construct_events_by_step_key(events) ==
    [ k \in { events[i].step_key : i \in DOMAIN events } |->
        SelectSeq(events, LAMBDA e : e.step_key = k) ]

\* result_for_handle raising for a solid none of whose steps has an event
result_for_handle_needs_events(events, handle) ==
    LET solid_def == get_solid(handle)
        mine(event) ==
            /\ is_step_event(event)
            /\ is_or_descends_from(event.solid_handle, handle)
        kinds == { events[i].step_kind : i \in { j \in DOMAIN events : mine(events[j]) } }
        events_by_kind ==
            [ k \in kinds |->
                SelectSeq(events, LAMBDA e : mine(e) /\ e.step_kind = k) ]
    IN  IF solid_def = None \/ kinds = {}
        THEN Raise("DagsterInvariantViolationError")
        ELSE Return([solid |-> solid_def, step_events_by_kind |-> events_by_kind])

\* the reverse of a sequence
Reverse(seq) == [ i \in 1..Len(seq) |-> seq[Len(seq) + 1 - i] ]

\* result_for_handle with each event put at the head of its bucket
result_for_handle_prepends(events, handle) ==
    LET solid_def == get_solid(handle)
        mine(event) ==
            /\ is_step_event(event)
            /\ is_or_descends_from(event.solid_handle, handle)
        kinds == { events[i].step_kind : i \in { j \in DOMAIN events : mine(events[j]) } }
        events_by_kind ==
            [ k \in kinds |->
                Reverse(SelectSeq(events, LAMBDA e : mine(e) /\ e.step_kind = k)) ]
    IN  IF solid_def = None
        THEN Raise("DagsterInvariantViolationError")
        ELSE Return([solid |-> solid_def, step_events_by_kind |-> events_by_kind])

\* result_for_handle(handle) on a result built from the event list `events`
result_for_handle(events, handle) ==
    LET solid_def == get_solid(handle)
        mine(event) ==
            /\ is_step_event(event)
            /\ is_or_descends_from(event.solid_handle, handle)
        kinds == { events[i].step_kind : i \in { j \in DOMAIN events : mine(events[j]) } }
        events_by_kind ==
            [ k \in kinds |->
                SelectSeq(events, LAMBDA e : mine(e) /\ e.step_kind = k) ]
    IN  IF solid_def = None
        THEN Raise("DagsterInvariantViolationError")
        ELSE Return([solid |-> solid_def, step_events_by_kind |-> events_by_kind])

\* --------------------------------------------------- SolidExecutionResult
\* compute_step_events taking the events of every step kind
compute_step_events_any_kind(result) ==
    ( IF "COMPUTE" \in DOMAIN result.step_events_by_kind
      THEN result.step_events_by_kind["COMPUTE"] ELSE <<>> )
    \o ( IF "OTHER" \in DOMAIN result.step_events_by_kind
         THEN result.step_events_by_kind["OTHER"] ELSE <<>> )

compute_step_events(result) ==
    IF "COMPUTE" \in DOMAIN result.step_events_by_kind
    THEN result.step_events_by_kind["COMPUTE"]
    ELSE <<>>

RECURSIVE success_loop(_, _, _)
success_loop(events, i, any_success) ==
    IF i > Len(events) THEN any_success
    ELSE IF events[i].event_type = "STEP_FAILURE" THEN FALSE
    ELSE success_loop(events, i + 1,
                      any_success \/ events[i].event_type = "STEP_SUCCESS")

\* success without the STEP_FAILURE early return
success_ignores_failure(result) ==
    \E i \in DOMAIN compute_step_events(result) :
        compute_step_events(result)[i].event_type = "STEP_SUCCESS"

\* success with any_success starting at True
success_starts_true(result) == success_loop(compute_step_events(result), 1, TRUE)

success(result) == success_loop(compute_step_events(result), 1, FALSE)

\* skipped with any() in place of all()
skipped_any(result) ==
    \E i \in DOMAIN compute_step_events(result) :
        compute_step_events(result)[i].event_type = "STEP_SKIPPED"

\* skipped that also wants at least one compute step event
skipped_nonempty(result) ==
    /\ compute_step_events(result) # <<>>
    /\ \A i \in DOMAIN compute_step_events(result) :
         compute_step_events(result)[i].event_type = "STEP_SKIPPED"

skipped(result) ==
    \A i \in DOMAIN compute_step_events(result) :
        compute_step_events(result)[i].event_type = "STEP_SKIPPED"

\* _get_value without the isinstance(value, ObjectStoreOperation) unwrap
get_value_no_unwrap(store, event) ==
    get_intermediate(store, step_output_handle(event))

\* _get_value(context, step_output_data): one read of the store, one unwrap
get_value(store, event) ==
    LET value == get_intermediate(store, step_output_handle(event))
    IN  IF value.type = "ObjectStoreOperation" THEN value.obj ELSE value

\* index of the first event of `events`, from i on, that is a successful output
\* named output_name; 0 when there is none
RECURSIVE first_output(_, _, _)
first_output(events, i, output_name) ==
    IF i > Len(events) THEN 0
    ELSE IF is_successful_output(events[i]) /\ events[i].output_name = output_name
         THEN i
         ELSE first_output(events, i + 1, output_name)

\* a call that touched no execution context
NoContext(ret) == [ret |-> ret, contexts |-> 0, released |-> 0, reads |-> <<>>]

\* what get_value handed back, as the outcome of the enclosing call: a failed
\* store read propagates as an exception
Outcome(value) == IF value.type = "raise" THEN Raise(value.error) ELSE Return(value)

\* the with block without release on the exceptional exit
with_context_leaks_on_error(ret, reads) ==
    [ret |-> ret, contexts |-> 1,
     released |-> IF ret.kind = "raise" THEN 0 ELSE 1, reads |-> reads]

\* with self.reconstruct_context() as context: <reads> -- one context acquired,
\* and released when the block is left, by return or by exception
with_reconstruct_context(ret, reads) ==
    [ret |-> ret, contexts |-> 1, released |-> 1, reads |-> reads]

NotDefined == Raise("DagsterInvariantViolationError: not defined in solid")
DidNotFind == Raise("DagsterInvariantViolationError: did not find result")

\* the loop of output_value with the context acquired around the whole loop
find_output_value_context_first(result, output_name, store) ==
    LET events == compute_step_events(result)
        i == first_output(events, 1, output_name)
    IN  IF i # 0
        THEN with_reconstruct_context(
                 Outcome(get_value(store, events[i])),
                 << [handle |-> step_output_handle(events[i]),
                     got |-> get_intermediate(
                                store, step_output_handle(events[i]))] >>)
        ELSE with_reconstruct_context(DidNotFind, <<>>)

\* the loop of output_value over the compute step events: the value of the first
\* successful output named output_name, read under one context; raises when
\* there is none
find_output_value(result, output_name, store) ==
    LET events == compute_step_events(result)
        i == first_output(events, 1, output_name)
    IN  IF i # 0
        THEN with_reconstruct_context(
                 Outcome(get_value(store, events[i])),
                 << [handle |-> step_output_handle(events[i]),
                     got |-> get_intermediate(
                                store, step_output_handle(events[i]))] >>)
        ELSE NoContext(DidNotFind)

\* output_value testing self.success before has_output
output_value_success_first(result, output_name, store) ==
    IF ~success(result)
    THEN NoContext(Return(None))
    ELSE IF ~has_output(result.solid, output_name)
    THEN NoContext(NotDefined)
    ELSE find_output_value(result, output_name, store)

\* output_value without the self.success test
output_value_no_success_test(result, output_name, store) ==
    IF ~has_output(result.solid, output_name)
    THEN NoContext(NotDefined)
    ELSE find_output_value(result, output_name, store)

\* output_value(output_name): the outcome, the contexts it acquired and the
\* store reads it made
output_value(result, output_name, store) ==
    IF ~has_output(result.solid, output_name)
    THEN NoContext(NotDefined)
    ELSE IF success(result)
    THEN find_output_value(result, output_name, store)
    ELSE NoContext(Return(None))

\* the dict comprehension of output_values: later events overwrite earlier ones
RECURSIVE values_dict(_, _, _, _)
values_dict(events, i, store, acc) ==
    IF i > Len(events) THEN acc
    ELSE IF is_successful_output(events[i])
         THEN values_dict(events, i + 1, store,
                  [ n \in DOMAIN acc \cup {events[i].output_name} |->
                      IF n = events[i].output_name
                      THEN get_value(store, events[i])
                      ELSE acc[n] ])
         ELSE values_dict(events, i + 1, store, acc)

EmptyDict == [n \in {} |-> None]

output_values(result, store) ==
    IF success(result) /\ compute_step_events(result) # <<>>
    THEN LET events == compute_step_events(result)
             outs == SelectSeq(events, is_successful_output)
             read(i) == [handle |-> step_output_handle(outs[i]),
                         got |-> get_intermediate(store, step_output_handle(outs[i]))]
             failed == { i \in DOMAIN outs : read(i).got.type = "raise" }
             \* the comprehension stops at the first read that raises
             last == IF failed = {} THEN Len(outs)
                     ELSE CHOOSE i \in failed : \A j \in failed : i <= j
         IN  with_reconstruct_context(
                 IF failed = {}
                 THEN Return([type |-> "dict",
                              items |-> values_dict(events, 1, store, EmptyDict)])
                 ELSE Raise(StoreError.error),
                 [ i \in 1..last |-> read(i) ])
    ELSE NoContext(Return(None))

\* _compute_steps_of_type(dagster_event_type): the compute step events of that
\* type, in the order of compute_step_events
compute_steps_of_type(result, dagster_event_type) ==
    SelectSeq(compute_step_events(result),
              LAMBDA se : se.event_type = dagster_event_type)

\* output_events_during_compute
output_events_during_compute(result) == compute_steps_of_type(result, "STEP_OUTPUT")

\* compute_output_event_dict: the STEP_OUTPUT events keyed by output name, a
\* later event of a name replacing the earlier one
compute_output_event_dict(result) ==
    LET outs == output_events_during_compute(result)
        last(n) == CHOOSE i \in DOMAIN outs :
                       /\ outs[i].output_name = n
                       /\ \A j \in DOMAIN outs : outs[j].output_name = n => j <= i
    IN  [ n \in { outs[i].output_name : i \in DOMAIN outs } |-> outs[last(n)] ]

\* get_output_event_for_compute(output_name): the dict lookup, a KeyError when
\* the name is not a key
get_output_event_for_compute(result, output_name) ==
    IF output_name \in DOMAIN compute_output_event_dict(result)
    THEN Return(compute_output_event_dict(result)[output_name])
    ELSE Raise("KeyError")

\* step_event.step_failure_data: the diagnostic payload a STEP_FAILURE carries
step_failure_data(event) ==
    [type |-> "StepFailureData", step_key |-> event.step_key]

\* failure_data returning the payload of the last failure instead of the first
failure_data_last(result) ==
    LET failures == compute_steps_of_type(result, "STEP_FAILURE")
    IN  IF failures = <<>> THEN None
        ELSE step_failure_data(failures[Len(failures)])

\* failure_data: the payload of the first compute STEP_FAILURE the loop meets;
\* the loop falling through returns None
failure_data(result) ==
    LET failures == compute_steps_of_type(result, "STEP_FAILURE")
    IN  IF failures = <<>> THEN None ELSE step_failure_data(failures[1])

CannotCallIfSuccessful ==
    Raise("DagsterInvariantViolationError: cannot call compute_step_failure_event if successful")
CheckInvariantFailed == Raise("CheckError: invariant failed")

\* compute_step_failure_event
compute_step_failure_event(result) ==
    LET step_failure_events == compute_steps_of_type(result, "STEP_FAILURE")
    IN  IF success(result) THEN CannotCallIfSuccessful
        ELSE IF Len(step_failure_events) # 1 THEN CheckInvariantFailed
        ELSE Return(step_failure_events[1])

\* event.is_failure: the event reports a failure
is_failure(event) == event.event_type = "STEP_FAILURE"

\* PipelineExecutionResult.success
pipeline_success(events) == \A i \in DOMAIN events : ~is_failure(events[i])

\* ------------------------------------------------------------ run store
RunId(n) == [type |-> "run_id", n |-> n]
\* instance.get_run_by_id(run_id)
get_run(store, run_id) == store[run_id.n]
RunIds(store) == { RunId(n) : n \in DOMAIN store }

\* ------------------------------------------------- the pipeline's full plan
\* B consumes A's output and C consumes B's
PlanSteps == {"A", "B", "C"}
Upstream(step) ==
    CASE step = "B" -> {"A"}
      [] step = "C" -> {"B"}
      [] OTHER      -> {}

\* terminal outcome of a step in a run's event log ("NONE": no terminal event)
StepOutcomes == {"SUCCESS", "FAILURE", "SKIPPED", "NONE"}

\* external_pipeline.tags
PipelineTags == [team |-> "x", owner |-> "data"]
\* execution_params.execution_metadata.tags a caller may pass
RunTagChoices == { [team |-> "y", env |-> "prod"], [env |-> "dev"] }
RunConfigs == {"valid_config", "invalid_config"}

\* dagster.utils.merge_dicts(left, right): right wins on a shared key
merge_dicts(left, right) ==
    [ k \in DOMAIN left \cup DOMAIN right |->
        IF k \in DOMAIN right THEN right[k] ELSE left[k] ]

\* the ExecutionParams a caller may pass, given the runs in the store: a fresh
\* run, or a retry of a stored run that names no root or names its parent as root
ExecutionParams(store) ==
    { p \in [ run_config    : RunConfigs,
              tags          : RunTagChoices,
              root_run_id   : {None} \cup RunIds(store),
              parent_run_id : {None} \cup RunIds(store) ] :
        p.root_run_id \in {None, p.parent_run_id} }

\* ensure_valid_config(external_pipeline, mode, run_config)
ensure_valid_config(run_config) ==
    IF run_config = "valid_config" THEN Return(None) ELSE Raise("InvalidConfigError")

\* S with every step that depends on a step of S, to a fixed point
RECURSIVE with_dependents(_)
with_dependents(S) ==
    LET more == S \cup { s \in PlanSteps : Upstream(s) \cap S # {} }
    IN  IF more = S THEN S ELSE with_dependents(more)

\* compute_step_keys_to_execute(graphene_info, external_pipeline, execution_params):
\* the whole plan for a run with no parent; for a retry, the parent's steps
\* without a terminal SUCCESS and everything downstream of them
compute_step_keys_to_execute(params, store, log) ==
    IF params.parent_run_id = None
    THEN PlanSteps
    ELSE with_dependents({ s \in DOMAIN log : log[s] # "SUCCESS" })

\* get_external_execution_plan_or_raise(..., step_keys_to_execute=...)
get_external_execution_plan(step_keys) ==
    [execution_plan_snapshot |-> [step_keys |-> step_keys]]

\* the keyword arguments create_valid_pipeline_run hands to create_run, with
\* the two dictionaries given to merge_dicts the other way round
create_run_args_tags_swapped(params, step_keys, plan, run_id) ==
    [ execution_plan_snapshot |-> plan.execution_plan_snapshot,
      run_id                  |-> run_id,
      run_config              |-> params.run_config,
      step_keys_to_execute    |-> step_keys,
      tags                    |-> merge_dicts(params.tags, PipelineTags),
      root_run_id             |-> params.root_run_id,
      parent_run_id           |-> params.parent_run_id,
      status                  |-> "NOT_STARTED" ]

\* ... with the parent's id handed over as root_run_id
create_run_args_root_is_parent(params, step_keys, plan, run_id) ==
    [ execution_plan_snapshot |-> plan.execution_plan_snapshot,
      run_id                  |-> run_id,
      run_config              |-> params.run_config,
      step_keys_to_execute    |-> step_keys,
      tags                    |-> merge_dicts(PipelineTags, params.tags),
      root_run_id             |-> params.parent_run_id,
      parent_run_id           |-> params.parent_run_id,
      status                  |-> "NOT_STARTED" ]

\* ... with step_keys_to_execute left out, so the run is recorded for all steps
create_run_args_all_steps(params, step_keys, plan, run_id) ==
    [ execution_plan_snapshot |-> plan.execution_plan_snapshot,
      run_id                  |-> run_id,
      run_config              |-> params.run_config,
      step_keys_to_execute    |-> PlanSteps,
      tags                    |-> merge_dicts(PipelineTags, params.tags),
      root_run_id             |-> params.root_run_id,
      parent_run_id           |-> params.parent_run_id,
      status                  |-> "NOT_STARTED" ]

\* the keyword arguments create_valid_pipeline_run hands to create_run
create_run_args(params, step_keys, plan, run_id) ==
    [ execution_plan_snapshot |-> plan.execution_plan_snapshot,
      run_id                  |-> run_id,
      run_config              |-> params.run_config,
      step_keys_to_execute    |-> step_keys,
      tags                    |-> merge_dicts(PipelineTags, params.tags),
      root_run_id             |-> params.root_run_id,
      parent_run_id           |-> params.parent_run_id,
      status                  |-> "NOT_STARTED" ]

\* instance.create_run(**args): the PipelineRun it persists; a root_run_id left
\* out defaults to the parent's own root
create_run(store, args) ==
    [ args EXCEPT !.root_run_id =
        IF args.root_run_id # None THEN args.root_run_id
        ELSE IF args.parent_run_id # None
             THEN get_run(store, args.parent_run_id).root_run_id
             ELSE None ]

\* make_new_run_id(), or the run id the caller supplied: never one in use
make_new_run_id(store) == RunId(Len(store) + 1)

\* ------------------------------------------ create_valid_pipeline_run steps
InitRun ==
    /\ runs = <<>>
    /\ pc = "idle"
    /\ execution_params = None
    /\ parent_log = None
    /\ step_keys_to_execute = None
    /\ external_execution_plan = None
    /\ outcome = None

\* a caller invokes create_valid_pipeline_run(graphene_info, external_pipeline, params)
Begin ==
    /\ pc \in {"idle", "done", "failed"}
    /\ Len(runs) < MaxRuns
    /\ \E params \in ExecutionParams(runs) : execution_params' = params
    /\ pc' = "validate"
    /\ parent_log' = None
    /\ step_keys_to_execute' = None
    /\ external_execution_plan' = None
    /\ outcome' = None
    /\ UNCHANGED <<runs, resultVars>>

\* line 10: ensure_valid_config raises on an invalid run config
Validate ==
    /\ pc = "validate"
    /\ LET r == ensure_valid_config(execution_params.run_config)
       IN  IF r.kind = "raise"
           THEN pc' = "failed" /\ outcome' = r
           ELSE pc' = "resolve" /\ outcome' = outcome
    /\ UNCHANGED <<runs, execution_params, parent_log, step_keys_to_execute,
                   external_execution_plan, resultVars>>

\* lines 12-14: the resolver reads the parent run's step outcomes, if there is a
\* parent, and returns the step keys, or raises on structural drift
Resolve ==
    /\ pc = "resolve"
    /\ \/ /\ execution_params.parent_run_id # None
          /\ pc' = "failed"
          /\ outcome' = Raise("RetryImpossibleError")
          /\ UNCHANGED <<parent_log, step_keys_to_execute>>
       \/ /\ \E log \in
                 IF execution_params.parent_run_id = None
                 THEN { [s \in {} |-> "NONE"] }
                 ELSE [ get_run(runs, execution_params.parent_run_id).step_keys_to_execute
                          -> StepOutcomes ] :
               /\ parent_log' = log
               /\ step_keys_to_execute' =
                     compute_step_keys_to_execute(execution_params, runs, log)
          /\ pc' = "plan"
          /\ outcome' = outcome
    /\ UNCHANGED <<runs, execution_params, external_execution_plan, resultVars>>

\* lines 16-22 with the plan builder's error swallowed: the handler goes on to
\* create_run without a plan
BuildPlanSwallowsError ==
    /\ pc = "plan"
    /\ \/ external_execution_plan' = [execution_plan_snapshot |-> None]
       \/ external_execution_plan' = get_external_execution_plan(step_keys_to_execute)
    /\ pc' = "create"
    /\ parent_log' = None
    /\ UNCHANGED <<runs, execution_params, step_keys_to_execute,
                   outcome, resultVars>>

\* lines 16-22: the plan restricted to step_keys_to_execute, or PlanBuildError
BuildPlan ==
    /\ pc = "plan"
    /\ \/ /\ pc' = "failed"
          /\ outcome' = Raise("PlanBuildError")
          /\ UNCHANGED external_execution_plan
       \/ /\ external_execution_plan' = get_external_execution_plan(step_keys_to_execute)
          /\ pc' = "create"
          /\ outcome' = outcome
    /\ parent_log' = None
    /\ UNCHANGED <<runs, execution_params, step_keys_to_execute, resultVars>>

\* lines 24-42: the run record is written and returned
CreateRun ==
    /\ pc = "create"
    /\ LET run == create_run(runs,
                     create_run_args(execution_params, step_keys_to_execute,
                                     external_execution_plan, make_new_run_id(runs)))
       IN  /\ runs' = Append(runs, run)
           /\ outcome' = Return(run)
    /\ pc' = "done"
    /\ UNCHANGED <<execution_params, parent_log, step_keys_to_execute,
                   external_execution_plan, resultVars>>

NextRun == Begin \/ Validate \/ Resolve \/ BuildPlan \/ CreateRun

\* ---------------------------------------- queries on an execution result
InitResult ==
    /\ event_list = <<>>
    /\ call = NoCall
    /\ open_contexts = 0
    /\ again = NoCall

\* the execution appends one more event to the log the result is built from
Emit ==
    /\ call = NoCall
    /\ Len(event_list) < MaxEvents
    /\ \E e \in Events : event_list' = Append(event_list, e)
    /\ call' = NoCall
    /\ UNCHANGED <<open_contexts, again, runVars>>

\* Success with result_for_handle taking the events out of event_list as it
\* files them
SuccessDrainsEvents ==
    /\ call = NoCall
    /\ \E h \in QueryHandles :
         LET r == result_for_handle(event_list, h)
         IN  call' = [op |-> "success", handle |-> h,
                      ret |-> IF r.kind = "raise" THEN r
                              ELSE Return(success(r.value))]
    /\ event_list' = <<>>
    /\ UNCHANGED <<open_contexts, again, runVars>>

\* result_for_handle(h).success
Success ==
    /\ call = NoCall
    /\ \E h \in QueryHandles :
         LET r == result_for_handle(event_list, h)
         IN  call' = [op |-> "success", handle |-> h,
                      ret |-> IF r.kind = "raise" THEN r
                              ELSE Return(success(r.value))]
    /\ UNCHANGED <<event_list, open_contexts, again, runVars>>

\* result_for_handle(h).skipped
Skipped ==
    /\ call = NoCall
    /\ \E h \in QueryHandles :
         LET r == result_for_handle(event_list, h)
         IN  call' = [op |-> "skipped", handle |-> h,
                      ret |-> IF r.kind = "raise" THEN r
                              ELSE Return(skipped(r.value))]
    /\ UNCHANGED <<event_list, open_contexts, again, runVars>>

\* result_for_handle(h).output_value(n)
OutputValue ==
    /\ call = NoCall
    /\ \E h \in QueryHandles, n \in OutputNames, store \in Stores :
         LET r == result_for_handle(event_list, h)
         IN  call' = IF r.kind = "raise"
                     THEN [op |-> "output_value", handle |-> h, output_name |-> n]
                          @@ NoContext(r)
                     ELSE [op |-> "output_value", handle |-> h, output_name |-> n]
                          @@ output_value(r.value, n, store)
    /\ open_contexts' = open_contexts + call'.contexts - call'.released
    /\ UNCHANGED <<event_list, again, runVars>>

\* result_for_handle(h).output_values
OutputValues ==
    /\ call = NoCall
    /\ \E h \in QueryHandles, store \in Stores :
         LET r == result_for_handle(event_list, h)
         IN  call' = IF r.kind = "raise"
                     THEN [op |-> "output_values", handle |-> h] @@ NoContext(r)
                     ELSE [op |-> "output_values", handle |-> h]
                          @@ output_values(r.value, store)
    /\ open_contexts' = open_contexts + call'.contexts - call'.released
    /\ UNCHANGED <<event_list, again, runVars>>

\* a caller reading success and skipped of one result_for_handle(h)
Status ==
    /\ call = NoCall
    /\ \E h \in QueryHandles :
         LET r == result_for_handle(event_list, h)
         IN  call' = [op |-> "status", handle |-> h,
                      ret |-> IF r.kind = "raise" THEN r
                              ELSE Return([success |-> success(r.value),
                                           skipped |-> skipped(r.value)])]
    /\ UNCHANGED <<event_list, open_contexts, again, runVars>>

\* result_for_handle(h).failure_data
FailureData ==
    /\ call = NoCall
    /\ \E h \in QueryHandles :
         LET r == result_for_handle(event_list, h)
         IN  call' = [op |-> "failure_data", handle |-> h,
                      ret |-> IF r.kind = "raise" THEN r
                              ELSE Return(failure_data(r.value))]
    /\ UNCHANGED <<event_list, open_contexts, again, runVars>>

\* result_for_handle(h).compute_step_failure_event
ComputeStepFailureEvent ==
    /\ call = NoCall
    /\ \E h \in QueryHandles :
         LET r == result_for_handle(event_list, h)
         IN  call' = [op |-> "compute_step_failure_event", handle |-> h,
                      ret |-> IF r.kind = "raise" THEN r
                              ELSE compute_step_failure_event(r.value)]
    /\ UNCHANGED <<event_list, open_contexts, again, runVars>>

\* PipelineExecutionResult.success
PipelineSuccess ==
    /\ call = NoCall
    /\ call' = [op |-> "pipeline_success", handle |-> <<>>,
                ret |-> Return(pipeline_success(event_list))]
    /\ UNCHANGED <<event_list, open_contexts, again, runVars>>

\* the execution appends one more event, of the smaller alphabet
EmitOrdered ==
    /\ call = NoCall
    /\ Len(event_list) < MaxEvents
    /\ \E e \in EventsOrdered : event_list' = Append(event_list, e)
    /\ call' = NoCall
    /\ UNCHANGED <<open_contexts, again, runVars>>

\* a caller taking result_for_handle(h) and reading what it holds: the buckets,
\* success, and the input, output, materialization and expectation events
Inspect ==
    /\ call = NoCall
    /\ \E h \in QueryHandles :
         LET r == result_for_handle(event_list, h)
         IN  call' =
               [op |-> "inspect", handle |-> h,
                ret |-> IF r.kind = "raise" THEN r
                        ELSE Return(
                          [step_events_by_kind |-> r.value.step_events_by_kind,
                           success |-> success(r.value),
                           input_events_during_compute |->
                               compute_steps_of_type(r.value, "STEP_INPUT"),
                           output_events_during_compute |->
                               compute_steps_of_type(r.value, "STEP_OUTPUT"),
                           materialization_events_during_compute |->
                               compute_steps_of_type(r.value, "STEP_MATERIALIZATION"),
                           expectation_events_during_compute |->
                               compute_steps_of_type(r.value, "STEP_EXPECTATION_RESULT")])]
    /\ UNCHANGED <<event_list, open_contexts, again, runVars>>

\* PipelineExecutionResult.events_by_step_key
EventsByStepKey ==
    /\ call = NoCall
    /\ call' = [op |-> "events_by_step_key", handle |-> <<>>,
                ret |-> Return(construct_events_by_step_key(event_list))]
    /\ UNCHANGED <<event_list, open_contexts, again, runVars>>

\* the execution appends one more event, of the alphabet with both step kinds
EmitKinds ==
    /\ call = NoCall
    /\ Len(event_list) < MaxEvents
    /\ \E e \in EventsKinds : event_list' = Append(event_list, e)
    /\ call' = NoCall
    /\ UNCHANGED <<open_contexts, again, runVars>>

\* the store answers the reads of a call as it answered them
SameStore(store, reads) ==
    \A i \in DOMAIN reads : get_intermediate(store, reads[i].handle) = reads[i].got

\* the result is built a second time from the same event list and the last
\* query is made on it, the store holding what it held
Requery ==
    /\ call # NoCall
    /\ again = NoCall
    /\ LET r == result_for_handle(event_list, call.handle)
       IN  \/ /\ call.op = "success"
              /\ again' = [op |-> "success", handle |-> call.handle,
                           ret |-> IF r.kind = "raise" THEN r
                                   ELSE Return(success(r.value))]
              /\ UNCHANGED open_contexts
           \/ /\ call.op = "skipped"
              /\ again' = [op |-> "skipped", handle |-> call.handle,
                           ret |-> IF r.kind = "raise" THEN r
                                   ELSE Return(skipped(r.value))]
              /\ UNCHANGED open_contexts
           \/ /\ call.op = "output_value"
              /\ \E store \in Stores :
                   /\ SameStore(store, call.reads)
                   /\ again' =
                        [op |-> "output_value", handle |-> call.handle,
                         output_name |-> call.output_name]
                        @@ ( IF r.kind = "raise" THEN NoContext(r)
                             ELSE output_value(r.value, call.output_name, store) )
              /\ open_contexts' = open_contexts + again'.contexts - again'.released
           \/ /\ call.op = "output_values"
              /\ \E store \in Stores :
                   /\ SameStore(store, call.reads)
                   /\ again' =
                        [op |-> "output_values", handle |-> call.handle]
                        @@ ( IF r.kind = "raise" THEN NoContext(r)
                             ELSE output_values(r.value, store) )
              /\ open_contexts' = open_contexts + again'.contexts - again'.released
    /\ UNCHANGED <<event_list, call, runVars>>

\* the execution appends one more event, of the alphabet of outputs
EmitOutputs ==
    /\ call = NoCall
    /\ Len(event_list) < MaxEvents
    /\ \E e \in EventsOutputs : event_list' = Append(event_list, e)
    /\ call' = NoCall
    /\ UNCHANGED <<open_contexts, again, runVars>>

\* result_for_handle(h).output_value(n) for the outputs the definition declares
OutputValueDeclared ==
    /\ call = NoCall
    /\ \E h \in QueryHandles, n \in DefinedOutputs, store \in Stores :
         LET r == result_for_handle(event_list, h)
         IN  call' = IF r.kind = "raise"
                     THEN [op |-> "output_value", handle |-> h, output_name |-> n]
                          @@ NoContext(r)
                     ELSE [op |-> "output_value", handle |-> h, output_name |-> n]
                          @@ output_value(r.value, n, store)
    /\ open_contexts' = open_contexts + call'.contexts - call'.released
    /\ UNCHANGED <<event_list, again, runVars>>

\* a caller reading one output of result_for_handle(h) through its three
\* accessors, the store holding the same checkpoints for all of them
Outputs ==
    /\ call = NoCall
    /\ \E h \in QueryHandles, n \in DefinedOutputs, store \in Stores :
         LET r == result_for_handle(event_list, h)
             one == output_value(r.value, n, store)
             all == output_values(r.value, store)
         IN  call' =
               IF r.kind = "raise"
               THEN [op |-> "outputs", handle |-> h, output_name |-> n,
                     ret |-> r, output_values |-> r, output_event |-> r,
                     contexts |-> 0, released |-> 0]
               ELSE [op |-> "outputs", handle |-> h, output_name |-> n,
                     ret |-> one.ret,
                     output_values |-> all.ret,
                     output_event |-> get_output_event_for_compute(r.value, n),
                     contexts |-> one.contexts + all.contexts,
                     released |-> one.released + all.released]
    /\ open_contexts' = open_contexts + call'.contexts - call'.released
    /\ UNCHANGED <<event_list, again, runVars>>

\* the caller is done with what the query returned
Done ==
    /\ call # NoCall
    /\ call' = NoCall
    /\ again' = NoCall
    /\ UNCHANGED <<event_list, open_contexts, runVars>>

Next == Emit \/ Success \/ Skipped \/ OutputValue \/ OutputValues \/ Done

Init == InitResult /\ InitRun

\* the result of one pipeline execution, queried as its event list grows
Spec == Init /\ [][Next]_vars

\* the status and failure queries of a view, and the pipeline-level success
NextView ==
    \/ Emit \/ Status \/ FailureData \/ ComputeStepFailureEvent
    \/ PipelineSuccess \/ OutputValue \/ Done
SpecView == Init /\ [][NextView]_vars

\* the aggregation itself: the step-key index and the view of a handle
NextOrdered == EmitOrdered \/ Inspect \/ EventsByStepKey \/ OutputValue \/ Done
SpecOrdered == Init /\ [][NextOrdered]_vars

\* the queries of a view over logs with events of both step kinds
NextKinds ==
    \/ EmitKinds \/ Success \/ Skipped \/ FailureData
    \/ OutputValue \/ OutputValues \/ Done
SpecKinds == Init /\ [][NextKinds]_vars

\* every query followed, or not, by the same query on a result built anew
NextTwice ==
    \/ EmitKinds \/ Success \/ Skipped \/ OutputValue \/ OutputValues
    \/ Requery \/ Done
SpecTwice == Init /\ [][NextTwice]_vars

\* the output accessors of a view, for the declared output names
NextOutputs == EmitOutputs \/ OutputValueDeclared \/ Outputs \/ Done
SpecOutputs == Init /\ [][NextOutputs]_vars

\* runs created one after the other through create_valid_pipeline_run
SpecRun == Init /\ [][NextRun]_vars

\* ------------------------------------------------------------- properties
\* the handle h is the handle `handle` or one of its ancestors
OnPathTo(handle, h) == \E n \in 1..Len(handle) : h = SubSeq(handle, 1, n)

\* positions in the event list of the compute-phase step events of h and of
\* its descendants
ComputeOf(h) ==
    { i \in DOMAIN event_list :
        /\ event_list[i].event_type \in StepEventTypes
        /\ event_list[i].step_kind = "COMPUTE"
        /\ OnPathTo(event_list[i].solid_handle, h) }

HasCompute(h, type) == \E i \in ComputeOf(h) : event_list[i].event_type = type

Succeeded(h) == HasCompute(h, "STEP_SUCCESS") /\ ~HasCompute(h, "STEP_FAILURE")

\* positions of the compute STEP_OUTPUT events of h named n
OutputsOf(h, n) ==
    { i \in ComputeOf(h) :
        event_list[i].event_type = "STEP_OUTPUT" /\ event_list[i].output_name = n }

Answered(op) ==
    call.op = op /\ call.handle \in SolidHandles /\ call.ret.kind = "return"

\* C1: success of result_for_handle(h) is true iff the compute-phase events of
\* h and its descendants hold at least one STEP_SUCCESS and no STEP_FAILURE,
\* wherever in the log those events stand.
C1_SuccessIff ==
    call.op = "success" /\ call.handle \in SolidHandles
        => call.ret = Return(Succeeded(call.handle))

\* a composite answered True with three events in the log, one of them the
\* failure of a step of another kind
C1_Witness ==
    /\ Answered("success")
    /\ call.handle = <<"outer">>
    /\ call.ret.value = TRUE
    /\ Len(event_list) = MaxEvents
    /\ \E i \in DOMAIN event_list :
         event_list[i].step_kind = "OTHER" /\ event_list[i].event_type = "STEP_FAILURE"

\* C2: skipped of result_for_handle(h) is true iff all compute-phase step
\* events of h and its descendants are STEP_SKIPPED events.
C2_SkippedIff ==
    call.op = "skipped" /\ call.handle \in SolidHandles
        => call.ret = Return(\A i \in ComputeOf(call.handle) :
                                event_list[i].event_type = "STEP_SKIPPED")

\* a composite answered False: one descendant skipped, another did not
C2_Witness ==
    /\ Answered("skipped")
    /\ call.handle = <<"outer">>
    /\ call.ret.value = FALSE
    /\ HasCompute(<<"outer", "inner">>, "STEP_SKIPPED")
    /\ HasCompute(<<"outer", "mid", "leaf">>, "STEP_SUCCESS")

\* C3: a compute STEP_FAILURE of a leaf makes success False for the leaf and
\* for every composite above it, whatever the other descendants did.
C3_DescendantClosure ==
    \A leaf \in LeafHandles :
        ( /\ call.op = "success"
          /\ OnPathTo(leaf, call.handle)
          /\ \E i \in DOMAIN event_list :
                /\ event_list[i].solid_handle = leaf
                /\ event_list[i].step_kind = "COMPUTE"
                /\ event_list[i].event_type = "STEP_FAILURE" )
        => call.ret = Return(FALSE)

\* the deepest leaf failed, its sibling succeeded afterwards, and the top
\* composite answered False
C3_Witness ==
    /\ Answered("success")
    /\ call.handle = <<"outer">>
    /\ call.ret.value = FALSE
    /\ \E i, j \in DOMAIN event_list :
         /\ i < j
         /\ event_list[i] = Event(<<"outer", "mid", "leaf">>, "COMPUTE", "STEP_FAILURE", "")
         /\ event_list[j] = Event(<<"outer", "inner">>, "COMPUTE", "STEP_SUCCESS", "")

\* C8: output_value of a name the solid does not define raises the
\* unknown-output error for every event list, succeeded or not, and acquires no
\* execution context.
C8_UnknownOutput ==
    ( /\ call.op = "output_value"
      /\ call.handle \in SolidHandles
      /\ call.output_name \notin DefinedOutputs )
    => call.ret = NotDefined /\ call.contexts = 0 /\ call.reads = <<>>

\* the unknown name was asked of a solid that failed
C8_Witness ==
    /\ call.op = "output_value"
    /\ call.handle \in SolidHandles
    /\ call.output_name = "bogus"
    /\ call.ret = NotDefined
    /\ HasCompute(call.handle, "STEP_FAILURE")

\* C9: for a defined output name, output_value of a solid that did not succeed
\* returns None and raises nothing, also when the log holds a STEP_OUTPUT for
\* that name; output_values returns None too.
C9_NoValueWhenNotSucceeded ==
    ( /\ call.op \in {"output_value", "output_values"}
      /\ call.handle \in SolidHandles
      /\ call.op = "output_value" => call.output_name \in DefinedOutputs
      /\ ~Succeeded(call.handle) )
    => call.ret = Return(None)

\* a solid with a STEP_OUTPUT for "result" and a STEP_FAILURE was asked for it
C9_Witness ==
    /\ Answered("output_value")
    /\ call.output_name = "result"
    /\ call.ret.value = None
    /\ OutputsOf(call.handle, "result") # {}
    /\ HasCompute(call.handle, "STEP_FAILURE")

\* C10: output_value(n) of a succeeded solid with a compute STEP_OUTPUT for n
\* whose handle points at a store entry returns the value held there; a pointer
\* wrapper the store answers with is dereferenced once, never returned.
C10_OutputRoundTrip ==
    ( /\ call.op = "output_value"
      /\ call.handle \in SolidHandles
      /\ Succeeded(call.handle)
      /\ OutputsOf(call.handle, call.output_name) # {}
      /\ call.ret # Raise(StoreError.error) )
    => /\ call.ret.kind = "return"
       /\ call.ret.value.type = "value"
       /\ \E i \in OutputsOf(call.handle, call.output_name) :
            /\ call.ret.value = Plain(HeldValue(step_output_handle(event_list[i])))
            /\ Len(call.reads) = 1
            /\ call.reads[1].handle = step_output_handle(event_list[i])
       /\ call.reads[1].got.type = "ObjectStoreOperation"
            => call.ret.value = call.reads[1].got.obj

\* the store answered with a wrapper around 42 and output_value returned 42
C10_Witness ==
    /\ Answered("output_value")
    /\ call.output_name = "result"
    /\ Len(call.reads) = 1
    /\ call.reads[1].got = ObjectStoreOperation(Plain(42))
    /\ call.ret.value = Plain(42)

\* C11: every execution context output_value or output_values acquires is
\* released by the time the call has returned or raised, a failed store read
\* included: no context is open after any sequence of such calls, and one call
\* acquires at most one context.
C11_ScopedContextRelease ==
    /\ open_contexts = 0
    /\ call.op \in {"output_value", "output_values"}
         => call.released = call.contexts /\ call.contexts <= 1

\* output_values read one output, failed to read the second, and raised with
\* its context released
C11_Witness ==
    /\ call.op = "output_values"
    /\ call.ret = Raise(StoreError.error)
    /\ Len(call.reads) = 2
    /\ call.reads[1].got.type # "raise"
    /\ call.contexts = 1
    /\ call.released = 1
    /\ open_contexts = 0

\* positions of the compute STEP_FAILURE events of h and of its descendants
FailuresOf(h) == { i \in ComputeOf(h) : event_list[i].event_type = "STEP_FAILURE" }

\* the first position of a non-empty set of positions
First(S) == CHOOSE i \in S : \A j \in S : i <= j

\* C12 as stated: failure_data of a node that is not successful returns the
\* payload of its unique compute STEP_FAILURE event, and fails when the node
\* has no such event or more than one.
C12_FailureDataUnique ==
    ( /\ call.op = "failure_data"
      /\ call.handle \in SolidHandles
      /\ ~Succeeded(call.handle) )
    => IF Cardinality(FailuresOf(call.handle)) = 1
       THEN call.ret =
                Return(step_failure_data(event_list[First(FailuresOf(call.handle))]))
       ELSE call.ret.kind = "raise"

\* C12: failure_data never fails: it returns the payload of the first compute
\* STEP_FAILURE event of the node in log order, and None when there is none.
\* The check for exactly one compute STEP_FAILURE is made by
\* compute_step_failure_event, which fails for a successful node, fails for a
\* node with no or several such events, and returns the one event otherwise.
C12_FailureDataFirst ==
    /\ ( call.op = "failure_data" /\ call.handle \in SolidHandles )
       => call.ret =
            Return(IF FailuresOf(call.handle) = {} THEN None
                   ELSE step_failure_data(event_list[First(FailuresOf(call.handle))]))
    /\ ( call.op = "compute_step_failure_event" /\ call.handle \in SolidHandles )
       => call.ret =
            IF Succeeded(call.handle) THEN CannotCallIfSuccessful
            ELSE IF Cardinality(FailuresOf(call.handle)) # 1
            THEN CheckInvariantFailed
            ELSE Return(event_list[First(FailuresOf(call.handle))])

\* failure_data of a composite with two failed descendants returned the payload
\* of the failure that stands first in the log
C12_Witness ==
    /\ call.op = "failure_data"
    /\ call.handle = <<"outer">>
    /\ Cardinality({ event_list[i].step_key : i \in FailuresOf(call.handle) }) = 2
    /\ call.ret.kind = "return"
    /\ call.ret.value = step_failure_data(event_list[First(FailuresOf(call.handle))])

TerminalTypes == {"STEP_SUCCESS", "STEP_FAILURE", "STEP_SKIPPED"}

\* the step events at positions i and j are two terminal events of different
\* kinds for one step key
TwoTerminals(i, j) ==
    /\ event_list[i].step_key = event_list[j].step_key
    /\ event_list[i].event_type \in TerminalTypes
    /\ event_list[j].event_type \in TerminalTypes
    /\ event_list[i].event_type # event_list[j].event_type

\* the log holds two terminal events of different kinds for one step key of
\* h or of a descendant of h
Conflicting(h) ==
    \E i, j \in { k \in DOMAIN event_list : OnPathTo(event_list[k].solid_handle, h) } :
        TwoTerminals(i, j)

\* the same, for a compute step
ConflictingCompute(h) == \E i, j \in ComputeOf(h) : TwoTerminals(i, j)

\* C13 as stated: when the log holds two terminal events of different kinds
\* for one step key, a query on that step's node fails instead of returning.
C13_ConsistencyError ==
    ( /\ call.op \in {"status", "output_value", "failure_data"}
      /\ call.handle \in SolidHandles
      /\ Conflicting(call.handle) )
    => call.ret.kind = "raise"

\* C13: the log is not checked for two terminal events of different kinds for
\* one step key. success and skipped return a value: success is decided as for
\* any other log (no compute STEP_FAILURE and some compute STEP_SUCCESS) and
\* skipped is False when the two events are compute events. failure_data
\* returns a value, and output_value returns or fails exactly as without the
\* second terminal event: the no-value sentinel for a defined output when the
\* node is not successful, and no other failure than an undefined output, a
\* missing STEP_OUTPUT or a failed store read.
C13_NoConsistencyCheck ==
    ( /\ call.op \in {"status", "output_value", "failure_data"}
      /\ call.handle \in SolidHandles
      /\ Conflicting(call.handle) )
    => /\ call.op = "status"
          => /\ call.ret.kind = "return"
             /\ call.ret.value.success = Succeeded(call.handle)
             /\ ConflictingCompute(call.handle) => ~call.ret.value.skipped
       /\ call.op = "failure_data" => call.ret.kind = "return"
       /\ call.op = "output_value"
          => /\ call.ret.kind = "raise"
                => call.ret \in {NotDefined, DidNotFind, Raise(StoreError.error)}
             /\ ( ~Succeeded(call.handle) /\ call.output_name \in DefinedOutputs )
                => call.ret = Return(None)

\* success and skipped of a leaf whose compute step has both a STEP_FAILURE
\* and a STEP_SKIPPED event were returned, both False
C13_Witness ==
    /\ call.op = "status"
    /\ call.handle \in LeafHandles
    /\ ConflictingCompute(call.handle)
    /\ HasCompute(call.handle, "STEP_SKIPPED")
    /\ HasCompute(call.handle, "STEP_FAILURE")
    /\ call.ret = Return([success |-> FALSE, skipped |-> FALSE])

\* the node of every step that has a step event in the log reports success
AllStepsSucceeded ==
    \A i \in DOMAIN event_list :
        is_step_event(event_list[i])
            => success(result_for_handle(event_list, event_list[i].solid_handle).value)

\* C18: the pipeline-level success is true exactly when every executed step's
\* node reports success through result_for_handle.
C18_PipelineSuccessIffAllSteps ==
    call.op = "pipeline_success" => call.ret = Return(AllStepsSucceeded)

\* C19: success and skipped of one view are never both True.
C19_SuccessSkippedExclusive ==
    ( call.op = "status" /\ call.ret.kind = "return" )
    => ~(call.ret.value.success /\ call.ret.value.skipped)

\* a node with a STEP_SKIPPED and a STEP_SUCCESS among its compute events was
\* reported successful and not skipped
C19_Witness ==
    /\ call.op = "status"
    /\ call.handle \in SolidHandles
    /\ HasCompute(call.handle, "STEP_SKIPPED")
    /\ HasCompute(call.handle, "STEP_SUCCESS")
    /\ call.ret = Return([success |-> TRUE, skipped |-> FALSE])

\* a compute event of h that is not terminal stands before a compute
\* STEP_SKIPPED of the same step
NonTerminalBeforeSkipped(h) ==
    \E i, j \in ComputeOf(h) :
        /\ i < j
        /\ event_list[i].step_key = event_list[j].step_key
        /\ event_list[i].event_type \notin TerminalTypes
        /\ event_list[j].event_type = "STEP_SKIPPED"

\* C20: a defined node with no compute-phase events is reported skipped and
\* not successful, as a node whose steps were all skipped is; a node one of
\* whose steps emitted a non-terminal compute event before its STEP_SKIPPED is
\* reported not skipped.
C20_SkippedWithoutEvents ==
    ( call.op = "status" /\ call.handle \in SolidHandles )
    => /\ ComputeOf(call.handle) = {}
          => call.ret = Return([success |-> FALSE, skipped |-> TRUE])
       /\ NonTerminalBeforeSkipped(call.handle)
          => call.ret.kind = "return" /\ ~call.ret.value.skipped

\* a leaf with a STEP_INPUT and then a STEP_SKIPPED, and nothing else, was
\* reported neither skipped nor successful
C20_Witness ==
    /\ call.op = "status"
    /\ call.handle \in LeafHandles
    /\ NonTerminalBeforeSkipped(call.handle)
    /\ Cardinality(ComputeOf(call.handle)) = 2
    /\ call.ret = Return([success |-> FALSE, skipped |-> FALSE])

\* positions of the step events of h and of its descendants
StepEventsOf(h) ==
    { i \in DOMAIN event_list :
        is_step_event(event_list[i]) /\ OnPathTo(event_list[i].solid_handle, h) }

\* the view of a solid none of whose steps was executed
NotExecuted ==
    [step_events_by_kind |-> [k \in {} |-> <<>>],
     success |-> FALSE,
     input_events_during_compute |-> <<>>,
     output_events_during_compute |-> <<>>,
     materialization_events_during_compute |-> <<>>,
     expectation_events_during_compute |-> <<>>]

\* C14: result_for_handle fails, with the handle-not-found error, exactly when
\* the handle addresses no solid of the pipeline definition; for a defined
\* solid without events it returns a view that is not successful, whose
\* materialization, expectation, input and output lists are empty, and whose
\* output_value of a defined output is the no-value sentinel.
C14_HandleNotFoundOnly ==
    /\ call.op = "inspect"
       => /\ call.ret.kind = "raise" <=> call.handle \notin SolidHandles
          /\ call.ret.kind = "raise"
                => call.ret = Raise("DagsterInvariantViolationError")
          /\ ( call.handle \in SolidHandles /\ StepEventsOf(call.handle) = {} )
                => call.ret = Return(NotExecuted)
    /\ ( /\ call.op = "output_value"
         /\ call.handle \in SolidHandles
         /\ StepEventsOf(call.handle) = {}
         /\ call.output_name \in DefinedOutputs )
       => call.ret = Return(None)

\* the log holds three events, none of a step of outer.mid, and the view of
\* outer.mid came back not executed
C14_Witness ==
    /\ call.op = "inspect"
    /\ call.handle = <<"outer", "mid">>
    /\ Len(event_list) = 3
    /\ \E i \in DOMAIN event_list : event_list[i].event_type = "STEP_MATERIALIZATION"
    /\ call.ret = Return(NotExecuted)

\* the n-th position, in increasing order, of a set of positions of the log
Nth(S, n) == CHOOSE i \in S : Cardinality({ j \in S : j <= i }) = n

\* seq is the events of the log at the positions S, each once, in log order
InLogOrder(seq, S) ==
    /\ Len(seq) = Cardinality(S)
    /\ \A n \in 1..Len(seq) : seq[n] = event_list[Nth(S, n)]

\* positions of the compute events of h and its descendants that have type t
ComputeOfType(h, t) == { i \in ComputeOf(h) : event_list[i].event_type = t }

\* C16: the aggregator neither reorders nor drops nor duplicates events: every
\* list of events_by_step_key holds the events of its step key in log order,
\* every bucket of result_for_handle(h) holds the step events of its kind that
\* belong to h or to a descendant of h, in log order, and the input, output,
\* materialization and expectation lists of the view keep that order.
C16_OrderPreserved ==
    /\ call.op = "events_by_step_key"
       => /\ DOMAIN call.ret.value =
                { event_list[i].step_key : i \in DOMAIN event_list }
          /\ \A k \in DOMAIN call.ret.value :
                InLogOrder(call.ret.value[k],
                           { i \in DOMAIN event_list : event_list[i].step_key = k })
    /\ ( call.op = "inspect" /\ call.handle \in SolidHandles )
       => LET view == call.ret.value
              h == call.handle
          IN  /\ DOMAIN view.step_events_by_kind =
                    { event_list[i].step_kind : i \in StepEventsOf(h) }
              /\ \A k \in DOMAIN view.step_events_by_kind :
                    InLogOrder(view.step_events_by_kind[k],
                               { i \in StepEventsOf(h) : event_list[i].step_kind = k })
              /\ InLogOrder(view.input_events_during_compute,
                            ComputeOfType(h, "STEP_INPUT"))
              /\ InLogOrder(view.output_events_during_compute,
                            ComputeOfType(h, "STEP_OUTPUT"))
              /\ InLogOrder(view.materialization_events_during_compute,
                            ComputeOfType(h, "STEP_MATERIALIZATION"))
              /\ InLogOrder(view.expectation_events_during_compute,
                            ComputeOfType(h, "STEP_EXPECTATION_RESULT"))

\* the view of the composite outer lists the outputs of two different leaves
\* in the order of the log, an event of another solid standing between them
C16_Witness ==
    /\ call.op = "inspect"
    /\ call.handle = <<"outer">>
    /\ Len(event_list) = 3
    /\ event_list[1].event_type = "STEP_OUTPUT"
    /\ event_list[2].event_type = "PIPELINE_START"
    /\ event_list[3].event_type = "STEP_OUTPUT"
    /\ event_list[1] # event_list[3]
    /\ call.ret.value.output_events_during_compute = <<event_list[1], event_list[3]>>

\* the log without the step events of a non-compute step kind
ComputeOnly ==
    SelectSeq(event_list, LAMBDA e : ~is_step_event(e) \/ e.step_kind = "COMPUTE")

\* C17: the step events of a non-compute step kind of a solid or of its
\* descendants, whatever their type, do not count: success, skipped,
\* failure_data, output_value and output_values answer as they do on the log
\* without those events.
C17_OnlyComputeCounts ==
    ( /\ call.op \in {"success", "skipped", "failure_data",
                       "output_value", "output_values"}
      /\ call.handle \in SolidHandles )
    => LET base == result_for_handle(ComputeOnly, call.handle).value
       IN  /\ call.op = "success" => call.ret = Return(success(base))
           /\ call.op = "skipped" => call.ret = Return(skipped(base))
           /\ call.op = "failure_data" => call.ret = Return(failure_data(base))
           /\ call.op = "output_value"
              => \A store \in Stores :
                    SameStore(store, call.reads)
                    => /\ output_value(base, call.output_name, store).ret = call.ret
                       /\ output_value(base, call.output_name, store).reads = call.reads
           /\ call.op = "output_values"
              => \A store \in Stores :
                    SameStore(store, call.reads)
                    => /\ output_values(base, store).ret = call.ret
                       /\ output_values(base, store).reads = call.reads

\* a leaf with a compute STEP_SKIPPED, and with a STEP_OUTPUT and a
\* STEP_SUCCESS of a step of another kind, was reported skipped
C17_Witness ==
    /\ call.op = "skipped"
    /\ call.handle = <<"outer", "inner">>
    /\ call.ret = Return(TRUE)
    /\ Len(event_list) = 3
    /\ Len(ComputeOnly) = 1
    /\ \E i, j \in DOMAIN event_list :
          /\ event_list[i].step_kind = "OTHER"
          /\ event_list[i].event_type = "STEP_OUTPUT"
          /\ event_list[i].solid_handle = call.handle
          /\ event_list[j].step_kind = "OTHER"
          /\ event_list[j].event_type = "STEP_SUCCESS"

C21_MissingOutputRaises ==
    ( call.op = "output_value" /\ call.handle \in SolidHandles )
    => /\ ( /\ Succeeded(call.handle)
            /\ call.output_name \in DefinedOutputs
            /\ OutputsOf(call.handle, call.output_name) = {} )
          => /\ call.ret = DidNotFind
             /\ call.contexts = 0
             /\ call.reads = <<>>
       /\ call.contexts <= 1
       /\ call.contexts = 1
          => /\ OutputsOf(call.handle, call.output_name) # {}
             /\ Len(call.reads) = 1

\* the composite outer succeeded and one of its steps emitted "result"; asked
\* for the declared output "other" it raised without acquiring a context
C21_Witness ==
    /\ call.op = "output_value"
    /\ call.handle = <<"outer">>
    /\ call.output_name = "other"
    /\ Succeeded(call.handle)
    /\ OutputsOf(call.handle, "result") # {}
    /\ call.ret = DidNotFind
    /\ call.contexts = 0

\* C22: for a succeeded solid and an output name that occurs in its compute
\* STEP_OUTPUT events, output_value(n) equals output_values[n] and is the value
\* the store holds under the handle of get_output_event_for_compute(n).
C22_AccessorsAgree ==
    ( /\ call.op = "outputs"
      /\ call.handle \in SolidHandles
      /\ Succeeded(call.handle)
      /\ OutputsOf(call.handle, call.output_name) # {}
      /\ call.ret.kind = "return"
      /\ call.output_values.kind = "return" )
    => /\ call.ret.value = call.output_values.value.items[call.output_name]
       /\ call.output_event.kind = "return"
       /\ call.ret.value =
            Plain(HeldValue(step_output_handle(call.output_event.value)))

\* ------------------------------------------- properties of run creation
\* step s is step t or depends on it through a chain of inputs
DependsOn(s, t) ==
    \E n \in 1..Cardinality(PlanSteps) :
        \E path \in [1..n -> PlanSteps] :
            /\ path[1] = t
            /\ path[n] = s
            /\ \A i \in 1..(n - 1) : path[i] \in Upstream(path[i + 1])

\* the steps of the parent run without a terminal STEP_SUCCESS, and all that
\* depends on them
RetrySteps(log) ==
    { s \in PlanSteps : \E t \in DOMAIN log : log[t] # "SUCCESS" /\ DependsOn(s, t) }

IsRetry == execution_params # None /\ execution_params.parent_run_id # None
LastRun == runs[Len(runs)]

\* C4: for a retry the resolved step subset is exactly the parent-plan steps
\* with no terminal STEP_SUCCESS together with every step that transitively
\* depends on one of them, and it is the subset the plan is built for and the
\* run is persisted with.
C4_ResumeMinimality ==
    /\ pc = "plan" /\ IsRetry => step_keys_to_execute = RetrySteps(parent_log)
    /\ pc = "done" /\ IsRetry =>
         /\ LastRun.step_keys_to_execute = step_keys_to_execute
         /\ LastRun.execution_plan_snapshot.step_keys = step_keys_to_execute

\* parent {A success, B failure, C no terminal event} resolved to {B, C}
C4_Witness ==
    /\ pc = "plan"
    /\ IsRetry
    /\ parent_log = [s \in PlanSteps |->
                        CASE s = "A" -> "SUCCESS" [] s = "B" -> "FAILURE" [] OTHER -> "NONE"]
    /\ step_keys_to_execute = {"B", "C"}

\* C5: create_valid_pipeline_run writes the run store once, as its last step
\* and only after validation, resolution and plan building succeeded; a call
\* that fails leaves the store as it was, and every stored run carries the
\* plan built for its step subset.
C5_CreateRunAtomic ==
    /\ [](\A i \in DOMAIN runs :
            runs[i].execution_plan_snapshot =
                [step_keys |-> runs[i].step_keys_to_execute])
    /\ [][ /\ runs' # runs =>
                /\ pc = "create" /\ pc' = "done"
                /\ Len(runs') = Len(runs) + 1
                /\ SubSeq(runs', 1, Len(runs)) = runs
           /\ pc' = "failed" => runs' = runs ]_vars

\* the plan builder refused the subset of a retry: the store still holds only
\* the parent run
C5_Witness ==
    /\ pc = "failed"
    /\ outcome = Raise("PlanBuildError")
    /\ step_keys_to_execute = {"B", "C"}
    /\ Len(runs) = 1

\* the first ancestor of run_id that has no parent
RECURSIVE Origin(_, _)
Origin(store, run_id) ==
    IF get_run(store, run_id).parent_run_id = None
    THEN run_id
    ELSE Origin(store, get_run(store, run_id).parent_run_id)

RetryWithoutRoot ==
    pc = "done" /\ IsRetry /\ execution_params.root_run_id = None

C7_TagMergePrecedence ==
    pc = "done" =>
        /\ DOMAIN LastRun.tags = DOMAIN PipelineTags \cup DOMAIN execution_params.tags
        /\ \A k \in DOMAIN execution_params.tags :
              LastRun.tags[k] = execution_params.tags[k]
        /\ \A k \in DOMAIN PipelineTags \ DOMAIN execution_params.tags :
              LastRun.tags[k] = PipelineTags[k]

\* pipeline tags {team: x, owner: data} and run tags {team: y, env: prod}
C7_Witness ==
    /\ pc = "done"
    /\ execution_params.tags = [team |-> "y", env |-> "prod"]
    /\ LastRun.tags = [team |-> "y", env |-> "prod", owner |-> "data"]

====
